---- MODULE Spec2Model ----
(***************************************************************************)
(* A model of crankycoin's node.py: NodeMixin and FullNode.  One node with *)
(* its peer registry, the calling ("main") task that runs the constructor, *)
(* the public request/broadcast operations and shutdown, the mining thread *)
(* running FullNode.mine, and the remote peers as an environment that      *)
(* answers every outbound request in any of the ways the code tells apart. *)
(***************************************************************************)
EXTENDS Naturals, FiniteSets, Sequences, TLC

\* ------------------------------------------------------------------ bounds
\* Operations the main task starts after construction.
MaxOps == 2
\* Mining attempts (calls of mine_block) of the mining thread.
MaxAttempts == 2
\* Runs of check_peers against pinned answers.
MaxRuns == 2

\* ------------------------------------------------------- program constants
\* config['network']['min_peers'] and ['max_peers']: the configurations a run
\* is started with, as <<min_peers, max_peers>>.
Limits == {<<2, 2>>, <<2, 3>>, <<3, 3>>}

\* self.host, and the addresses remote peers can report.
host == "self"
Remote == {"a", "b", "c"}
Addr == Remote \cup {host}

Tasks == {"main", "miner"}
None == "None"
coinbase == "coinbase"
Txs == {"tx1", "tx2"}

\* ------------------------------------------------- the remote environment
\* A response to an outbound request.  exc: the call raised
\* requests.exceptions.RequestException.  Otherwise status_code, and the
\* body: json is "bad" (json.loads raises), "nokey" (a well-formed object
\* without the key the code reads) or "ok"; the other fields are the body's
\* content where the operation reads one.
Body(code, json) ==
  [exc |-> FALSE, status_code |-> code, json |-> json, full_nodes |-> {},
   success |-> FALSE, value |-> None, tx_hash |-> None]
Exc == [Body(0, None) EXCEPT !.exc = TRUE]
NoResp == Body(0, None)

\* /nodes/ answers: a "full_nodes" list drawn from the addresses: no address,
\* one address (the node's own too) or all of them.
NodeLists == {s \in SUBSET Addr : Cardinality(s) <= 1} \cup {Addr}
NodesResponses ==
  {Exc, Body(404, None), Body(200, "bad"), Body(200, "nokey")}
    \cup {[Body(200, "ok") EXCEPT !.full_nodes = s] : s \in NodeLists}
\* The network descriptors of the nodes, by name: "config" is this node's
\* config['network'], "other" differs from it in the value of one key and
\* "more" has one key more.
Descriptors ==
  [config |-> [full_node_port |-> "8000", downtime_threshold |-> "5"],
   other |-> [full_node_port |-> "9000", downtime_threshold |-> "5"],
   more |-> [full_node_port |-> "8000", downtime_threshold |-> "5",
             balance_url |-> "/balance/"]]
\* /status/ answers: the descriptor of the node that answers.
StatusResponses ==
  {Exc, Body(404, None), Body(200, "bad")}
    \cup {[Body(200, "ok") EXCEPT !.value = v] : v \in DOMAIN Descriptors}
\* /connect/ answers.
ConnectResponses ==
  {Exc, Body(404, None), Body(202, "bad"), Body(202, "nokey")}
    \cup {[Body(202, "ok") EXCEPT !.success = v] : v \in BOOLEAN}
\* Answers to a push (POST to the inbox or to /transactions/).
PushResponses == {Exc, Body(200, "ok"), Body(404, None)}
\* Answers to the block-header and inventory requests.
DataResponses ==
  {Exc, Body(404, None), Body(200, "bad"), Body(200, "nokey"), Body(200, "ok")}
\* /transactions/<hash> answers: the fields (value) and the claimed tx_hash.
Contents == {"c1", "c2"}
Hashes == {"h1", "h2"}
TxResponses ==
  {Exc, Body(404, None), Body(200, "bad"), Body(200, "nokey")}
    \cup {[Body(200, "ok") EXCEPT !.value = c, !.tx_hash = h] :
            c \in Contents, h \in Hashes}

\* ------------------------------------------------------------------ state
VARIABLES
  peers,        \* self.peers: the hosts in the registry
  exit_flag,    \* self.exit_flag
  NODE_TYPE,    \* self.NODE_TYPE
  bottle_thread,\* self.bottle_thread: "running" or "exited"
  chain,        \* self.blockchain: hashes of the accepted blocks
  mempool,      \* self.mempool: unconfirmed transactions
  block,        \* mine's local: the candidate block
  pc,           \* each task's position
  op,           \* each task's public operation in progress
  todo,         \* each task's for loop: the elements not yet iterated
  known_peers,  \* find_known_peers' local, then check_peers' local
  peer,         \* check_peers' loop variable
  ret,          \* what each task's last public operation returned
  enum,         \* a broadcast's enumeration of get_all_peers()
  sent,         \* the peers a broadcast issued its push request to
  failed,       \* the peers whose request raised a transport error in the
                \* loop in progress
  admitted,     \* the hosts the check_peers in progress called add_peer
                \* with, kept until its caller's loop takes its first step
  cand,         \* the last candidate the admission loop processed
  call,         \* each task's last outbound call and its record_downtime calls
  announced,    \* the hashes the mining loop called broadcast_block_inv with
  mine_log,     \* the mining iteration's calls, in order
  nops,         \* operations started by the main task
  attempts,     \* mine_block calls made
  net,          \* the answers the remote peers can give in this run
  memo          \* a pinned run's record: each peer's answers, and the peer
                \* set at construction and at each return of check_peers

vars == <<peers, exit_flag, NODE_TYPE, bottle_thread, chain, mempool, block,
          pc, op, todo, known_peers, peer, ret, enum, sent, failed, admitted,
          cand, call,
          announced, mine_log, nops, attempts, net, memo>>

\* NodeMixin.MIN_PEERS and NodeMixin.MAX_PEERS, read from the configuration
MIN_PEERS == net.MIN_PEERS
MAX_PEERS == net.MAX_PEERS

flag_vars == <<exit_flag, NODE_TYPE, bottle_thread, net>>
node_vars == <<flag_vars, memo>>
mine_vars == <<chain, mempool, block, announced, mine_log, attempts>>
loop_vars == <<todo, known_peers, peer>>
bc_vars == <<enum, sent, failed, admitted>>

\* ------------------------------------------------------- the peer registry
\* Peers.get_peers_count()
get_peers_count(P) == Cardinality(P)
\* Peers.get_all_peers()
get_all_peers(P) == P
\* Peers.add_peer(host): insertion is a no-op once at maximum.
add_peer(P, p) == IF Cardinality(P) >= MAX_PEERS THEN P ELSE P \cup {p}
\* Peers.record_downtime(host): the registry may evict the peer (its policy
\* and its stored downtime are its own); evict is the registry's decision.
record_downtime(P, p, evict) == IF evict THEN P \ {p} ELSE P

\* A candidate block: its header's hash and its transactions, the coinbase
\* first.
NoBlock == [hash |-> 0, transactions |-> <<>>]
NoRet == [op |-> None, kind |-> "None", value |-> NoResp]
NoCall == [fn |-> None, node |-> None, resp |-> NoResp, down |-> <<>>]
NoCand == [peer |-> None, count |-> 0, status |-> NoResp, connect |-> NoResp,
           added |-> FALSE]

\* --------------------------------------------------- the request operations
\* What an operation does with a response: kind is "value" (it returns
\* value), "None" (it returns None) or "raised" (an exception leaves it);
\* down says that it called self.peers.record_downtime(node).
Returns(v) == [kind |-> "value", value |-> v, down |-> FALSE]
ReturnsNone == [kind |-> "None", value |-> NoResp, down |-> FALSE]
Raises == [kind |-> "raised", value |-> NoResp, down |-> FALSE]
Downtime == [kind |-> "None", value |-> NoResp, down |-> TRUE]

\* A variant that records the downtime of a node that answers another code.
request_nodes_penalising(r) ==
  IF r.exc THEN Downtime
  ELSE IF r.status_code = 200
       THEN IF r.json = "bad" THEN Raises ELSE Returns(r)
       ELSE Downtime
\* NodeMixin.request_nodes: all_nodes is the parsed object, whatever its keys.
request_nodes(r) ==
  IF r.exc THEN Downtime
  ELSE IF r.status_code = 200
       THEN IF r.json = "bad" THEN Raises ELSE Returns(r)
       ELSE ReturnsNone

\* config['network'], and json.loads(response.json()) of a status answer
config_network == Descriptors["config"]
status_dict(r) == Descriptors[r.value]
\* A variant that asks only for the local keys in the answer.
status_equal_local_keys(dict, local) ==
  \A k \in DOMAIN local : k \in DOMAIN dict /\ dict[k] = local[k]
\* lines 60 and 143: the == and != of two dicts: the same keys with equal
\* values
status_equal(dict, local) == dict = local

\* A variant whose except clause records the downtime of the host.
ping_status_penalising(r) ==
  IF r.exc THEN Downtime
  ELSE IF r.status_code = 200
       THEN IF r.json = "bad" THEN Raises
            ELSE Returns([r EXCEPT !.success =
                            status_equal(status_dict(r), config_network)])
       ELSE ReturnsNone
\* NodeMixin.ping_status: status_dict == config['network'].
ping_status(r) ==
  IF r.exc THEN ReturnsNone
  ELSE IF r.status_code = 200
       THEN IF r.json = "bad" THEN Raises
            ELSE Returns([r EXCEPT !.success =
                            status_equal(status_dict(r), config_network)])
       ELSE ReturnsNone

\* FullNode.request_block_header: BlockHeader(block_dict['previous_hash'], ...)
request_block_header(r) ==
  IF r.exc THEN Downtime
  ELSE IF r.status_code = 200
       THEN IF r.json \in {"bad", "nokey"} THEN Raises ELSE Returns(r)
       ELSE ReturnsNone

\* Transaction's content hash, recomputed from its fields.
calculate_tx_hash(content) == IF content = "c1" THEN "h1" ELSE "h2"
\* Transaction(...): the record built from the fetched fields.
Transaction(tx_dict) ==
  [tx_dict EXCEPT !.tx_hash = calculate_tx_hash(tx_dict.value)]

\* A variant without the check of lines 194-197.
request_transaction_unverified(r) ==
  IF r.exc THEN Downtime
  ELSE IF r.status_code = 200
       THEN IF r.json \in {"bad", "nokey"} THEN Raises
            ELSE Returns(Transaction(r))
       ELSE ReturnsNone
\* FullNode.request_transaction
request_transaction(r) ==
  IF r.exc THEN Downtime
  ELSE IF r.status_code = 200
       THEN IF r.json \in {"bad", "nokey"} THEN Raises
            ELSE IF Transaction(r).tx_hash # r.tx_hash THEN ReturnsNone
                 ELSE Returns(Transaction(r))
       ELSE ReturnsNone

\* FullNode.request_transactions_inv: tx_dict['tx_hashes']
request_transactions_inv(r) ==
  IF r.exc THEN Downtime
  ELSE IF r.status_code = 200
       THEN IF r.json \in {"bad", "nokey"} THEN Raises ELSE Returns(r)
       ELSE ReturnsNone

\* FullNode.request_blocks_inv: block_dict['block_hashes']
request_blocks_inv(r) ==
  IF r.exc THEN Downtime
  ELSE IF r.status_code = 200
       THEN IF r.json \in {"bad", "nokey"} THEN Raises ELSE Returns(r)
       ELSE ReturnsNone

\* A variant whose except clause records nothing.
push_silent(r) == IF r.exc THEN ReturnsNone ELSE Returns(r)
\* One push of a broadcast: requests.post(url, json=data) in its try block.
push(r) == IF r.exc THEN Downtime ELSE Returns(r)

Broadcasts == {"broadcast_transaction", "broadcast_block_inv",
               "broadcast_transaction_inv", "broadcast_block_header"}

\* A variant that announces the block before it prunes the pool.
mine_order_announce_first == <<"m_add", "m_bcast", "m_prune">>
\* FullNode.mine, lines 285-287: what follows the block's acceptance, in order
mine_order == <<"m_add", "m_prune", "m_bcast">>
mine_next(step) ==
  IF \E i \in 1..(Len(mine_order) - 1) : mine_order[i] = step
  THEN mine_order[(CHOOSE i \in 1..(Len(mine_order) - 1) :
                     mine_order[i] = step) + 1]
  ELSE "m_top"

\* Where a task goes on when its operation o ends: an exception leaving the
\* constructor or the mining thread's target ends it.
Resume(t, o, kind) ==
  IF kind = "raised"
  THEN IF t = "miner" THEN "exited"
       ELSE IF o = "__init__" THEN "failed" ELSE "idle"
  ELSE IF t = "miner" THEN mine_next("m_bcast")
       ELSE IF o = "__init__" THEN "init_mining" ELSE "idle"

\* The end of task t's operation in progress: it returns or raises, and its
\* locals are gone.
End(t, kind, value) ==
  /\ pc' = [pc EXCEPT ![t] = "returned"]
  /\ ret' = [ret EXCEPT ![t] = [op |-> op[t], kind |-> kind, value |-> value]]
  /\ todo' = [todo EXCEPT ![t] = {}]
  /\ known_peers' = [known_peers EXCEPT ![t] = {}]
  /\ peer' = [peer EXCEPT ![t] = None]

\* The call record of one outbound request and its outcome.
Called(t, fn, node, r, res) ==
  call' = [call EXCEPT ![t] =
    [fn |-> fn, node |-> node, resp |-> r,
     down |-> IF res.down THEN <<node>> ELSE <<>>]]

\* The peers whose request raised a transport error, after p answered r.
Failed(t, p, r) ==
  failed' = [failed EXCEPT ![t] = IF r.exc THEN failed[t] \cup {p} ELSE failed[t]]

\* ------------------------------------------------------------------- Init
\* A network whose peers may fail in every way; sets iterate in any order.
AnyNet(L) ==
  [nodes |-> NodesResponses, status |-> StatusResponses,
   connect |-> ConnectResponses, push |-> PushResponses, order |-> <<>>,
   pinned |-> FALSE, MIN_PEERS |-> L[1], MAX_PEERS |-> L[2]]
\* A network whose peers answer well-formed bodies and report every address;
\* a connect may be refused and a push may fail at the transport.
PlainNet(order, L) ==
  [nodes |-> {[Body(200, "ok") EXCEPT !.full_nodes = Addr]},
   status |-> {[Body(200, "ok") EXCEPT !.value = "config"]},
   connect |-> {[Body(202, "ok") EXCEPT !.success = v] : v \in BOOLEAN},
   push |-> {Exc, Body(200, "ok")}, order |-> order, pinned |-> FALSE,
   MIN_PEERS |-> L[1], MAX_PEERS |-> L[2]]

\* The constructor has bound host and reward_address, created the queue,
\* the blockchain, the mempool and the registry (which holds the stored
\* peers P), and started the bottle thread; super().__init__() is next.
Construct(P, N) ==
  /\ peers = P
  /\ net = N
  /\ exit_flag = FALSE
  /\ NODE_TYPE = "full"
  /\ bottle_thread = "running"
  /\ chain = <<>>
  /\ mempool = Txs
  /\ block = NoBlock
  /\ pc = [t \in Tasks |-> IF t = "main" THEN "cp_count" ELSE "unstarted"]
  /\ op = [t \in Tasks |-> IF t = "main" THEN "__init__" ELSE None]
  /\ todo = [t \in Tasks |-> {}]
  /\ known_peers = [t \in Tasks |-> {}]
  /\ peer = [t \in Tasks |-> None]
  /\ ret = [t \in Tasks |-> NoRet]
  /\ enum = [t \in Tasks |-> {}]
  /\ sent = [t \in Tasks |-> {}]
  /\ failed = [t \in Tasks |-> {}]
  /\ admitted = [t \in Tasks |-> {}]
  /\ cand = [t \in Tasks |-> NoCand]
  /\ call = [t \in Tasks |-> NoCall]
  /\ announced = <<>>
  /\ mine_log = <<>>
  /\ nops = 0
  /\ attempts = 0
  /\ memo = [nodes |-> [p \in Addr |-> NoResp],
             status |-> [p \in Addr |-> NoResp],
             connect |-> [p \in Addr |-> NoResp],
             sets |-> IF N.pinned THEN <<P>> ELSE <<>>]

\* The stored peers the registry starts with: no more than its maximum.
Stored(L) == {Q \in SUBSET Remote : Cardinality(Q) <= L[2]}

Init ==
  \E L \in Limits : \E P \in Stored(L) : Construct(P, AnyNet(L))

\* for x in <a set>: the element p the loop takes next from the elements S
\* not yet iterated.  A set iterates in an order of its own: any order when
\* the run fixes none (net.order is empty), else the run's order.
iterates(S, p) ==
  /\ p \in S
  /\ net.order # <<>> =>
       \A q \in S : \E i, j \in 1..Len(net.order) :
         net.order[i] = p /\ net.order[j] = q /\ i <= j

\* In a pinned run, peer p answers a request of the kind as it answered the
\* first one.
Answers(kind, p, r) ==
  IF net.pinned
  THEN /\ memo[kind][p] \in {NoResp, r}
       /\ memo' = [memo EXCEPT ![kind][p] = r]
  ELSE UNCHANGED memo
\* In a pinned run, the peer set check_peers leaves is recorded.
Leaves(P) ==
  memo' = IF net.pinned THEN [memo EXCEPT !.sets = Append(@, P)] ELSE memo

\* ------------------------------------------------------------ check_peers
\* A variant that refreshes whatever the count is.
below_min_always(P) == TRUE
\* A variant that still refreshes with MIN_PEERS peers.
below_min_or_equal(P) == get_peers_count(P) <= MIN_PEERS
\* line 127: if self.peers.get_peers_count() < self.MIN_PEERS
below_min(P) == get_peers_count(P) < MIN_PEERS
\* A variant whose loop never breaks.
at_max_never(P) == FALSE
\* A variant that breaks one admission late.
at_max_above(P) == get_peers_count(P) > MAX_PEERS
\* line 134: if self.peers.get_peers_count() >= self.MAX_PEERS: break
at_max(P) == get_peers_count(P) >= MAX_PEERS
\* A variant that takes no candidate for the node itself.
is_self_never(p) == FALSE
\* line 136: if peer == self.host: continue
is_self(p) == p = host
\* A variant without the except clause: the transport error leaves the loop.
status_check_unguarded(r) ==
  IF r.exc THEN "raised"
  ELSE IF r.status_code # 200 THEN "continue"
  ELSE IF r.json = "bad" THEN "raised"
  ELSE IF ~status_equal(status_dict(r), config_network) THEN "continue"
  ELSE "connect"
\* lines 142-144: the status request; "pass" is the except clause.
status_check(r) ==
  IF r.exc THEN "pass"
  ELSE IF r.status_code # 200 THEN "continue"
  ELSE IF r.json = "bad" THEN "raised"
  ELSE IF ~status_equal(status_dict(r), config_network) THEN "continue"
  ELSE "connect"
\* A variant that takes any 202 object for the acknowledgment.
connect_check_any_ack(r) ==
  IF r.exc THEN "pass"
  ELSE IF r.status_code # 202 THEN "skip"
  ELSE IF r.json = "bad" THEN "raised"
  ELSE "add_peer"
\* lines 145-149: the connect request; .get("success") is True
connect_check(r) ==
  IF r.exc THEN "pass"
  ELSE IF r.status_code # 202 THEN "skip"
  ELSE IF r.json = "bad" THEN "raised"
  ELSE IF r.json = "ok" /\ r.success THEN "add_peer"
  ELSE "skip"

\* check_peers returns into the broadcast that called it, or to the caller.
CheckPeersReturn(t) ==
  /\ Leaves(peers)
  /\ IF op[t] \in Broadcasts
     THEN /\ pc' = [pc EXCEPT ![t] = "bc_all"]
          /\ todo' = [todo EXCEPT ![t] = {}]
          /\ known_peers' = [known_peers EXCEPT ![t] = {}]
          /\ peer' = [peer EXCEPT ![t] = None]
          /\ UNCHANGED ret
     ELSE End(t, "None", NoResp)

\* line 127
CheckCount(t) ==
  /\ pc[t] = "cp_count"
  /\ IF below_min(peers)
     THEN /\ pc' = [pc EXCEPT ![t] = "fkp_all"]
          /\ UNCHANGED <<ret, loop_vars, memo>>
     ELSE CheckPeersReturn(t)
  /\ UNCHANGED <<peers, flag_vars, mine_vars, op, bc_vars, cand, call, nops>>

\* find_known_peers, lines 46-47
FindKnownPeers(t) ==
  /\ pc[t] = "fkp_all"
  /\ todo' = [todo EXCEPT ![t] = get_all_peers(peers)]
  /\ known_peers' = [known_peers EXCEPT ![t] = get_all_peers(peers)]
  /\ pc' = [pc EXCEPT ![t] = "fkp_loop"]
  /\ UNCHANGED <<peers, node_vars, mine_vars, op, peer, ret, bc_vars, cand,
                 call, nops>>

\* A variant that assigns the reported list.
merge_nodes_replace(known, res) ==
  IF res.kind = "value" THEN res.value.full_nodes ELSE known
\* known_peers after one iteration of lines 48-51 with request_nodes' result
merge_nodes(known, res) ==
  IF res.kind = "value" THEN known \cup res.value.full_nodes ELSE known

\* find_known_peers, lines 48-51: one iteration, with request_nodes inlined
FkpRequest(t, p, r, evict) ==
  /\ pc[t] = "fkp_loop"
  /\ iterates(todo[t], p)
  /\ Answers("nodes", p, r)
  /\ Failed(t, p, r)
  /\ LET res == request_nodes(r) IN
     /\ Called(t, "request_nodes", p, r, res)
     /\ peers' = IF res.down THEN record_downtime(peers, p, evict) ELSE peers
     /\ IF res.kind = "raised" \/ (res.kind = "value" /\ r.json = "nokey")
        THEN End(t, "raised", NoResp)
        ELSE /\ known_peers' =
                  [known_peers EXCEPT ![t] = merge_nodes(known_peers[t], res)]
             /\ todo' = [todo EXCEPT ![t] = todo[t] \ {p}]
             /\ UNCHANGED <<pc, ret, peer>>
  /\ UNCHANGED <<flag_vars, mine_vars, op, enum, sent, admitted, cand, nops>>

\* find_known_peers returns known_peers; line 133 iterates it
FkpReturn(t) ==
  /\ pc[t] = "fkp_loop"
  /\ todo[t] = {}
  /\ todo' = [todo EXCEPT ![t] = known_peers[t]]
  /\ known_peers' = [known_peers EXCEPT ![t] = {}]
  /\ call' = [call EXCEPT ![t] = NoCall]
  /\ failed' = [failed EXCEPT ![t] = {}]
  /\ pc' = [pc EXCEPT ![t] = "cp_loop"]
  /\ UNCHANGED <<peers, node_vars, mine_vars, op, peer, ret, enum, sent,
                 admitted, cand, nops>>

\* lines 133-144: the next candidate p: the capacity guard, the self check
\* and the status request, answered by r
CpCandidate(t, p, r) ==
  /\ pc[t] = "cp_loop"
  /\ iterates(todo[t], p)
  /\ IF at_max(peers)
     THEN /\ CheckPeersReturn(t)
          /\ cand' = [cand EXCEPT ![t] = NoCand]
          /\ UNCHANGED failed
     ELSE IF is_self(p)
     THEN /\ r = NoResp
          /\ todo' = [todo EXCEPT ![t] = todo[t] \ {p}]
          /\ cand' = [cand EXCEPT ![t] = NoCand]
          /\ UNCHANGED <<pc, peer, known_peers, ret, memo, failed>>
     ELSE /\ r # NoResp
          /\ Answers("status", p, r)
          /\ Failed(t, p, r)
          /\ cand' = [cand EXCEPT ![t] =
               [NoCand EXCEPT !.peer = p, !.count = get_peers_count(peers),
                              !.status = r]]
          /\ IF status_check(r) = "raised"
             THEN End(t, "raised", NoResp)
             ELSE /\ todo' = [todo EXCEPT ![t] = todo[t] \ {p}]
                  /\ peer' = [peer EXCEPT ![t] =
                       IF status_check(r) = "connect" THEN p ELSE None]
                  /\ pc' = [pc EXCEPT ![t] =
                       IF status_check(r) = "connect"
                       THEN "cp_connect" ELSE "cp_loop"]
                  /\ UNCHANGED <<known_peers, ret>>
  /\ UNCHANGED <<peers, flag_vars, mine_vars, op, enum, sent, admitted, call,
                 nops>>

\* line 133: known_peers is exhausted; line 150
CpReturn(t) ==
  /\ pc[t] = "cp_loop"
  /\ todo[t] = {}
  /\ CheckPeersReturn(t)
  /\ cand' = [cand EXCEPT ![t] = NoCand]
  /\ UNCHANGED <<peers, flag_vars, mine_vars, op, bc_vars, call, nops>>

\* lines 145-149: the connect request, and add_peer on its acknowledgment
CpConnect(t, r) ==
  /\ pc[t] = "cp_connect"
  /\ Answers("connect", peer[t], r)
  /\ Failed(t, peer[t], r)
  /\ cand' = [cand EXCEPT ![t].connect = r,
                          ![t].added = (connect_check(r) = "add_peer")]
  /\ peers' = IF connect_check(r) = "add_peer"
              THEN add_peer(peers, peer[t]) ELSE peers
  /\ admitted' = IF connect_check(r) = "add_peer"
                 THEN [admitted EXCEPT ![t] = admitted[t] \cup {peer[t]}]
                 ELSE admitted
  /\ IF connect_check(r) = "raised"
     THEN End(t, "raised", NoResp)
     ELSE /\ pc' = [pc EXCEPT ![t] = "cp_loop"]
          /\ peer' = [peer EXCEPT ![t] = None]
          /\ UNCHANGED <<ret, todo, known_peers>>
  /\ UNCHANGED <<flag_vars, mine_vars, op, enum, sent, call, nops>>

\* ------------------------------------------------------------- broadcasts
\* A variant whose loop goes on after a response.
returns_response_never(o) == FALSE
\* line 75: broadcast_transaction returns the response inside the loop
returns_response(o) == o = "broadcast_transaction"

\* for node in self.peers.get_all_peers(), after check_peers returned
BcAll(t) ==
  /\ pc[t] = "bc_all"
  /\ todo' = [todo EXCEPT ![t] = get_all_peers(peers)]
  /\ enum' = [enum EXCEPT ![t] = get_all_peers(peers)]
  /\ sent' = [sent EXCEPT ![t] = {}]
  /\ failed' = [failed EXCEPT ![t] = {}]
  /\ pc' = [pc EXCEPT ![t] = "bc_loop"]
  /\ UNCHANGED <<peers, node_vars, mine_vars, op, known_peers, peer, ret,
                 admitted, cand, call, nops>>

\* one iteration of a broadcast's loop: the push to node p
BcPush(t, p, r, evict) ==
  /\ pc[t] = "bc_loop"
  /\ iterates(todo[t], p)
  /\ LET res == push(r) IN
     /\ Called(t, op[t], p, r, res)
     /\ sent' = [sent EXCEPT ![t] = sent[t] \cup {p}]
     /\ Failed(t, p, r)
     /\ peers' = IF res.down THEN record_downtime(peers, p, evict) ELSE peers
     /\ IF returns_response(op[t]) /\ res.kind = "value"
        THEN End(t, "value", r)
        ELSE /\ todo' = [todo EXCEPT ![t] = todo[t] \ {p}]
             /\ UNCHANGED <<pc, ret, known_peers, peer>>
  /\ admitted' = [admitted EXCEPT ![t] = {}]
  /\ UNCHANGED <<node_vars, mine_vars, op, enum, cand, nops>>

\* the loop is exhausted: return (None)
BcReturn(t) ==
  /\ pc[t] = "bc_loop"
  /\ todo[t] = {}
  /\ End(t, "None", NoResp)
  /\ admitted' = [admitted EXCEPT ![t] = {}]
  /\ UNCHANGED <<peers, node_vars, mine_vars, op, enum, sent, failed, cand,
                 call, nops>>

\* The caller takes the result of the operation that ended and goes on.
Continue(t) ==
  /\ pc[t] = "returned"
  /\ pc' = [pc EXCEPT ![t] = Resume(t, op[t], ret[t].kind)]
  /\ op' = [op EXCEPT ![t] = None]
  /\ ret' = [ret EXCEPT ![t] = NoRet]
  /\ call' = [call EXCEPT ![t] = NoCall]
  /\ enum' = [enum EXCEPT ![t] = {}]
  /\ sent' = [sent EXCEPT ![t] = {}]
  /\ failed' = [failed EXCEPT ![t] = {}]
  /\ admitted' = [admitted EXCEPT ![t] = {}]
  /\ cand' = [cand EXCEPT ![t] = NoCand]
  /\ UNCHANGED <<peers, node_vars, mine_vars, loop_vars, nops>>

\* A variant whose broadcasts enumerate the peers at once.
first_step_enumerate(o) == IF o \in Broadcasts THEN "bc_all" ELSE "cp_count"
\* The first statement of a broadcast is self.check_peers() (lines 67, 233,
\* 248, 263), as is check_peers' own.
first_step(o) == "cp_count"

\* ------------------------------------------ the main task's operations
\* check_peers or a broadcast is called.
StartOp(o) ==
  /\ pc["main"] = "idle"
  /\ nops < MaxOps
  /\ nops' = nops + 1
  /\ op' = [op EXCEPT !["main"] = o]
  /\ pc' = [pc EXCEPT !["main"] = first_step(o)]
  /\ UNCHANGED <<peers, node_vars, mine_vars, loop_vars, ret, bc_vars, cand,
                 call>>

\* One request operation, from its call to its return: res is what fn makes
\* of the response r.
Retrieve(fn, node, r, res, evict) ==
  /\ pc["main"] = "idle"
  /\ nops < MaxOps
  /\ nops' = nops + 1
  /\ op' = [op EXCEPT !["main"] = fn]
  /\ Called("main", fn, node, r, res)
  /\ peers' = IF res.down THEN record_downtime(peers, node, evict) ELSE peers
  /\ pc' = [pc EXCEPT !["main"] = "returned"]
  /\ ret' = [ret EXCEPT !["main"] =
       [op |-> fn, kind |-> res.kind, value |-> res.value]]
  /\ UNCHANGED <<node_vars, mine_vars, loop_vars, bc_vars, cand>>

RequestNodes(node, r, evict) ==
  Retrieve("request_nodes", node, r, request_nodes(r), evict)
PingStatus(node, r, evict) ==
  Retrieve("ping_status", node, r, ping_status(r), evict)
RequestBlockHeader(node, r, evict) ==
  Retrieve("request_block_header", node, r, request_block_header(r), evict)
RequestTransaction(node, r, evict) ==
  Retrieve("request_transaction", node, r, request_transaction(r), evict)
RequestTransactionsInv(node, r, evict) ==
  Retrieve("request_transactions_inv", node, r, request_transactions_inv(r),
           evict)
RequestBlocksInv(node, r, evict) ==
  Retrieve("request_blocks_inv", node, r, request_blocks_inv(r), evict)

\* FullNode.__init__, lines 105-111, after super().__init__() returned
InitMining(mining) ==
  /\ pc["main"] = "init_mining"
  /\ IF mining
     THEN /\ NODE_TYPE' = "miner"
          /\ exit_flag' = FALSE
          /\ pc' = [pc EXCEPT !["main"] = "idle", !["miner"] = "m_top"]
     ELSE /\ pc' = [pc EXCEPT !["main"] = "idle"]
          /\ UNCHANGED <<NODE_TYPE, exit_flag>>
  /\ UNCHANGED <<peers, bottle_thread, net, memo, mine_vars, op, loop_vars,
                 ret, bc_vars, cand, call, nops>>

\* --------------------------------------------------------------- shutdown
\* A variant that never stops and joins the mining thread.
joins_nothing(type) == FALSE
\* the thread shutdown joins first (lines 114-116)
joins_mining(type) == type = "miner"

\* FullNode.shutdown, lines 114-115
Shutdown ==
  /\ pc["main"] = "idle"
  /\ op' = [op EXCEPT !["main"] = "shutdown"]
  /\ IF joins_mining(NODE_TYPE)
     THEN /\ exit_flag' = TRUE
          /\ pc' = [pc EXCEPT !["main"] = "join_mining"]
     ELSE /\ pc' = [pc EXCEPT !["main"] = "join_bottle"]
          /\ UNCHANGED exit_flag
  /\ UNCHANGED <<peers, NODE_TYPE, bottle_thread, net, memo, mine_vars,
                 loop_vars, ret, bc_vars, cand, call, nops>>

\* line 116: self.mining_thread.join() returns once the thread has ended
JoinMining ==
  /\ pc["main"] = "join_mining"
  /\ pc["miner"] = "exited"
  /\ pc' = [pc EXCEPT !["main"] = "join_bottle"]
  /\ UNCHANGED <<peers, node_vars, mine_vars, op, loop_vars, ret, bc_vars,
                 cand, call, nops>>

\* line 117: self.bottle_thread.join(); shutdown returns
JoinBottle ==
  /\ pc["main"] = "join_bottle"
  /\ bottle_thread = "exited"
  /\ pc' = [pc EXCEPT !["main"] = "down"]
  /\ UNCHANGED <<peers, node_vars, mine_vars, op, loop_vars, ret, bc_vars,
                 cand, call, nops>>

\* app.run returns: the server of the exposure layer stops.  Nothing but the
\* join of line 117 reads the thread's state, so the step is taken there.
BottleExit ==
  /\ bottle_thread = "running"
  /\ pc["main"] = "join_bottle"
  /\ bottle_thread' = "exited"
  /\ UNCHANGED <<peers, exit_flag, NODE_TYPE, net, memo, mine_vars, pc, op,
                 loop_vars, ret, bc_vars, cand, call, nops>>

\* ----------------------------------------------------------------- mining
RECURSIVE SeqOf(_)
\* The transactions of a set, as the list a block carries.
SeqOf(S) ==
  IF S = {} THEN <<>>
  ELSE LET x == CHOOSE y \in S : TRUE IN <<x>> \o SeqOf(S \ {x})
Range(q) == {q[i] : i \in 1..Len(q)}

\* Mempool.remove_unconfirmed_transactions(transactions)
remove_unconfirmed_transactions(pool, transactions) ==
  pool \ Range(transactions)
\* line 286: block.transactions[1:]
confirmed(b) == Tail(b.transactions)
\* A variant whose loop condition never reads the flag.
stops_never(flag) == FALSE
\* line 281: while not self.exit_flag
stops(flag) == flag

Logged(fn, b, arg) ==
  mine_log' = Append(mine_log, [fn |-> fn, hash |-> b.hash, arg |-> arg])

\* line 281: the stop flag is read at the top of each iteration
MineTop ==
  /\ pc["miner"] = "m_top"
  /\ IF stops(exit_flag)
     THEN pc' = [pc EXCEPT !["miner"] = "exited"]
     ELSE /\ attempts < MaxAttempts
          /\ pc' = [pc EXCEPT !["miner"] = "m_mine"]
  /\ mine_log' = <<>>
  /\ block' = NoBlock
  /\ UNCHANGED <<peers, node_vars, chain, mempool, announced, attempts, op,
                 loop_vars, ret, bc_vars, cand, call, nops>>

\* lines 282-284: self.mine_block(reward_address) yields a candidate with
\* the pool's transactions or with the coinbase alone, or no block
MineBlock(found, S) ==
  /\ pc["miner"] = "m_mine"
  /\ S \in {{}, mempool}
  /\ attempts' = attempts + 1
  /\ IF found
     THEN /\ block' = [hash |-> attempts + 1,
                       transactions |-> <<coinbase>> \o SeqOf(S)]
          /\ pc' = [pc EXCEPT !["miner"] = mine_order[1]]
     ELSE /\ S = {}
          /\ block' = NoBlock
          /\ pc' = [pc EXCEPT !["miner"] = "m_top"]
  /\ UNCHANGED <<peers, node_vars, chain, mempool, announced, mine_log, op,
                 loop_vars, ret, bc_vars, cand, call, nops>>

\* A variant that goes back to the check whatever add_block returned.
after_add_never(accepted) == "m_top"
\* A variant that goes on to line 286 whatever add_block returned.
after_add_always(accepted) == mine_next("m_add")
\* line 285: if self.blockchain.add_block(block): lines 286-287, else the
\* next iteration
after_add(accepted) == IF accepted THEN mine_next("m_add") ELSE "m_top"

\* line 285: self.blockchain.add_block(block) accepts the block or not
AddBlock(accepted) ==
  /\ pc["miner"] = "m_add"
  /\ pc' = [pc EXCEPT !["miner"] = after_add(accepted)]
  /\ IF accepted
     THEN /\ chain' = Append(chain, block.hash)
          /\ Logged("add_block", block, <<>>)
     ELSE UNCHANGED <<chain, mine_log>>
  /\ UNCHANGED <<peers, node_vars, mempool, block, announced, attempts, op,
                 loop_vars, ret, bc_vars, cand, call, nops>>

\* line 286
Prune ==
  /\ pc["miner"] = "m_prune"
  /\ mempool' = remove_unconfirmed_transactions(mempool, confirmed(block))
  /\ Logged("remove_unconfirmed_transactions", block, confirmed(block))
  /\ pc' = [pc EXCEPT !["miner"] = mine_next("m_prune")]
  /\ UNCHANGED <<peers, node_vars, chain, block, announced, attempts, op,
                 loop_vars, ret, bc_vars, cand, call, nops>>

\* line 287: self.broadcast_block_inv(block.block_header.hash) is called
MineBroadcast ==
  /\ pc["miner"] = "m_bcast"
  /\ Logged("broadcast_block_inv", block, <<>>)
  /\ announced' = Append(announced, block.hash)
  /\ op' = [op EXCEPT !["miner"] = "broadcast_block_inv"]
  /\ pc' = [pc EXCEPT !["miner"] = first_step("broadcast_block_inv")]
  /\ UNCHANGED <<peers, node_vars, chain, mempool, block, attempts,
                 loop_vars, ret, bc_vars, cand, call, nops>>

\* ------------------------------------------------------- specification
\* The steps of check_peers, and the return to the caller.
PeersStep(t) ==
  \/ CheckCount(t)
  \/ FindKnownPeers(t)
  \/ \E p \in Addr, r \in net.nodes, evict \in BOOLEAN :
       FkpRequest(t, p, r, evict)
  \/ FkpReturn(t)
  \/ \E p \in Addr, r \in net.status \cup {NoResp} : CpCandidate(t, p, r)
  \/ CpReturn(t)
  \/ \E r \in net.connect : CpConnect(t, r)
  \/ Continue(t)

\* The steps of a broadcast after its check_peers.
BroadcastStep(t) ==
  \/ BcAll(t)
  \/ \E p \in Addr, r \in net.push, evict \in BOOLEAN :
       BcPush(t, p, r, evict)
  \/ BcReturn(t)

Step(t) == PeersStep(t) \/ BroadcastStep(t)

\* The operations of the calling task.
Requests ==
  \/ \E n \in Remote, r \in NodesResponses, e \in BOOLEAN :
       RequestNodes(n, r, e)
  \/ \E n \in Remote, r \in StatusResponses, e \in BOOLEAN :
       PingStatus(n, r, e)
  \/ \E n \in Remote, r \in DataResponses, e \in BOOLEAN :
       RequestBlockHeader(n, r, e)
  \/ \E n \in Remote, r \in TxResponses, e \in BOOLEAN :
       RequestTransaction(n, r, e)
  \/ \E n \in Remote, r \in DataResponses, e \in BOOLEAN :
       RequestTransactionsInv(n, r, e)
  \/ \E n \in Remote, r \in DataResponses, e \in BOOLEAN :
       RequestBlocksInv(n, r, e)

Mine ==
  \/ MineTop
  \/ \E found \in BOOLEAN, S \in SUBSET Txs : MineBlock(found, S)
  \/ \E accepted \in BOOLEAN : AddBlock(accepted)
  \/ Prune
  \/ MineBroadcast

\* A full node (mining is not requested): the calling task alone.
Next ==
  \/ Step("main")
  \/ \E o \in Broadcasts \cup {"check_peers"} : StartOp(o)
  \/ Requests
  \/ InitMining(FALSE)
  \/ Shutdown
  \/ JoinBottle
  \/ BottleExit

Spec == Init /\ [][Next]_vars

\* A mining node: the mining thread runs beside the calling task, which
\* calls check_peers and shutdown.
InitMine ==
  \E P \in {{"a"}, {"a", "b"}},
     order \in {<<"b", host, "a", "c">>, <<"c", "a", host, "b">>} :
    Construct(P, PlainNet(order, <<3, 3>>))

NextMine ==
  \/ \E t \in Tasks : Step(t)
  \/ StartOp("check_peers")
  \/ InitMining(TRUE)
  \/ Shutdown
  \/ JoinMining
  \/ JoinBottle
  \/ BottleExit
  \/ Mine

SpecMine == InitMine /\ [][NextMine]_vars

\* check_peers run again and again against peers that answer each kind of
\* request the same way every time (the constructor's run is the first).
PinnedNet(L) ==
  [nodes |-> {Exc, Body(404, None)}
               \cup {[Body(200, "ok") EXCEPT !.full_nodes = s] :
                       s \in {{"b"}, {"c"}, Addr}},
   status |-> {[Body(200, "ok") EXCEPT !.value = v] :
                 v \in {"config", "other"}},
   connect |-> {Exc} \cup {[Body(202, "ok") EXCEPT !.success = v] :
                             v \in BOOLEAN},
   push |-> PushResponses, order |-> <<>>, pinned |-> TRUE,
   MIN_PEERS |-> L[1], MAX_PEERS |-> L[2]]

InitTwice ==
  \E L \in Limits : \E P \in Stored(L) : Construct(P, PinnedNet(L))

\* check_peers is called again while fewer than MaxRuns runs have returned.
RunAgain ==
  /\ Len(memo.sets) <= MaxRuns
  /\ StartOp("check_peers")

NextTwice ==
  \/ PeersStep("main")
  \/ RunAgain
  \/ InitMining(FALSE)

SpecTwice == InitTwice /\ [][NextTwice]_vars

\* ================================================================ properties
\* What a response is, read off its fields.
StatusAgrees(r) ==
  ~r.exc /\ r.status_code = 200 /\ r.json = "ok" /\ r.value = "config"
ConnectAcks(r) ==
  ~r.exc /\ r.status_code = 202 /\ r.json = "ok" /\ r.success

\* C1: a candidate the admission loop processes gets its connect request
\* only if its status answer is a 200 whose body equals the local descriptor,
\* and the step that handles the connect answer puts the candidate into the
\* peer set if both the status agreed and the connect is a 202 with
\* success = true, and leaves the peer set as it was otherwise; no other step
\* of the loop changes the peer set.
C1_AdmittedIffBothAgree ==
  [][\A t \in Tasks :
       LET c == cand'[t] IN
       /\ pc[t] = "cp_loop" =>
            /\ peers' = peers
            /\ pc'[t] = "cp_connect" =>
                 c.peer = peer'[t] /\ StatusAgrees(c.status)
       /\ (pc[t] = "cp_connect" /\ pc'[t] # "cp_connect") =>
            /\ c.peer = peer[t]
            /\ peers' = IF StatusAgrees(c.status) /\ ConnectAcks(c.connect)
                        THEN peers \cup {peer[t]} ELSE peers]_vars
\* A candidate that was not a peer has been admitted.
C1_Witness ==
  \E t \in Tasks :
    /\ cand[t].added /\ cand[t].peer \in peers
    /\ Cardinality(peers) = cand[t].count + 1
    /\ StatusAgrees(cand[t].status) /\ ConnectAcks(cand[t].connect)

\* C2: the peer set never holds more than MAX_PEERS hosts, and the admission
\* loop processes a candidate (sends it a request, admits it) only while the
\* count is below MAX_PEERS.
C2_NeverAboveMax ==
  /\ Cardinality(peers) <= MAX_PEERS
  /\ \A t \in Tasks :
       /\ cand[t].peer # None => cand[t].count < MAX_PEERS
       /\ pc[t] = "cp_connect" => Cardinality(peers) < MAX_PEERS
\* An admission has filled the peer set while a candidate that is no peer is
\* still to come: the loop breaks before it.
C2_Witness ==
  /\ pc["main"] = "cp_loop"
  /\ cand["main"].added
  /\ Cardinality(peers) = MAX_PEERS
  /\ todo["main"] \ (peers \cup {host}) # {}

\* C3: the calls of a mining iteration that follow the acceptance of its
\* block are add_block, then remove_unconfirmed_transactions with the block's
\* transactions but the first, then broadcast_block_inv, each for that block;
\* and while the broadcast runs (a peer may have been sent the hash) the block
\* is on the chain and none of its transactions but the first is in the pool.
C3_CommitPruneAnnounce ==
  LET events == <<"add_block", "remove_unconfirmed_transactions",
                  "broadcast_block_inv">>
      rest == SubSeq(block.transactions, 2, Len(block.transactions))
  IN /\ Len(mine_log) <= 3
     /\ \A i \in 1..Len(mine_log) :
          mine_log[i].fn = events[i] /\ mine_log[i].hash = block.hash
     /\ Len(mine_log) >= 2 => mine_log[2].arg = rest
     /\ (op["miner"] = "broadcast_block_inv" \/ sent["miner"] # {}) =>
          /\ Len(mine_log) = 3
          /\ chain # <<>> /\ chain[Len(chain)] = block.hash
          /\ \A i \in 2..Len(block.transactions) :
               block.transactions[i] \notin mempool
\* A peer has been sent the hash of a block that confirmed transactions.
C3_Witness ==
  /\ sent["miner"] # {}
  /\ Len(block.transactions) > 1
  /\ Len(mine_log) = 3

\* C4: when shutdown has returned on a mining node, the mining thread has
\* left its loop and is in no operation; the chain, the pool and the mining
\* thread's calls and pushes change no more.
C4_ShutdownJoinsMining ==
  (pc["main"] = "down" /\ NODE_TYPE = "miner") =>
    /\ pc["miner"] = "exited"
    /\ op["miner"] = None
    /\ sent["miner"] = {}
\* shutdown has returned on a node whose mining thread committed a block.
C4_Witness ==
  /\ pc["main"] = "down"
  /\ NODE_TYPE = "miner"
  /\ chain # <<>>

\* C5: when a broadcast returns, every peer of its enumeration has been sent
\* the artifact.
C5_EveryPeerIsSent ==
  \A t \in Tasks :
    (pc[t] = "returned" /\ ret[t].op \in Broadcasts /\ ret[t].kind # "raised")
      => sent[t] = enum[t]

\* The loops of C6: find_known_peers, the admission loop, and the broadcasts
\* but broadcast_transaction.
InFanOut(t) ==
  \/ pc[t] \in {"fkp_loop", "cp_loop", "cp_connect"}
  \/ pc[t] = "bc_loop" /\ op[t] # "broadcast_transaction"
\* The loop task t is in ends without an exception.
LoopEnds(t) ==
  /\ InFanOut(t)
  /\ pc'[t] # pc[t]
  /\ pc[t] \in {"cp_loop", "cp_connect"} =>
       pc'[t] \notin {"cp_loop", "cp_connect"}
  /\ ret'[t].kind # "raised"
\* A request of task t's loop raises a transport error on this step.
Fails(t) == InFanOut(t) /\ failed'[t] # {} /\ failed'[t] # failed[t]

\* C6 as stated: a transport error does not end the loop, and a loop in which
\* a request raised a transport error ends only when every other peer of the
\* iteration has received its request.
C6_EveryOtherPeerIsAsked ==
  [][\A t \in Tasks :
       /\ Fails(t) => pc'[t] \in {"fkp_loop", "cp_loop", "bc_loop"}
       /\ (LoopEnds(t) /\ failed[t] # {}) => todo[t] \ {host} = {}]_vars

\* C6, amended: on the step on which the request to peer p raises a transport
\* error the loop goes on with the peers not yet iterated, and nothing
\* recorded for another peer changes (p alone may leave the peer set, by its
\* downtime); a loop in which a request raised a transport error ends only
\* when every peer has been iterated, or by the admission loop's break at
\* MAX_PEERS.
C6_FailureLeavesLoopRunning ==
  [][\A t \in Tasks :
       /\ Fails(t) =>
            LET p == CHOOSE q \in failed'[t] \ failed[t] : TRUE IN
            /\ pc'[t] = IF pc[t] = "cp_connect" THEN "cp_loop" ELSE pc[t]
            /\ todo'[t] = todo[t] \ {p}
            /\ known_peers'[t] = known_peers[t]
            /\ sent'[t] \ {p} = sent[t] \ {p}
            /\ peers' \ {p} = peers \ {p}
       /\ (LoopEnds(t) /\ failed[t] # {}) =>
            \/ todo[t] = {}
            \/ pc[t] = "cp_loop" /\ at_max(peers)]_vars
\* After the request to one peer raised a transport error, the loop has
\* asked another peer, which answered.
C6_Witness ==
  \E t \in Tasks :
    /\ pc[t] = "bc_loop" /\ op[t] # "broadcast_transaction"
    /\ failed[t] # {}
    /\ call[t].node \notin failed[t]
    /\ call[t].node \in sent[t]

\* C7: the transaction request_transaction returns carries the hash the peer
\* claimed, and that is the hash of its fields; on a 200 answer whose claimed
\* hash is not the hash of its fields it returns None and records no downtime.
C7_HashIntegrity ==
  LET r == ret["main"]
      c == call["main"]
  IN (pc["main"] = "returned" /\ r.op = "request_transaction") =>
       /\ r.kind = "value" =>
            /\ r.value.tx_hash = c.resp.tx_hash
            /\ calculate_tx_hash(r.value.value) = c.resp.tx_hash
            /\ r.value.value = c.resp.value
       /\ (/\ ~c.resp.exc /\ c.resp.status_code = 200 /\ c.resp.json = "ok"
           /\ calculate_tx_hash(c.resp.value) # c.resp.tx_hash) =>
            r.kind = "None" /\ c.down = <<>>
\* A 200 answer whose claimed hash is not the hash of its fields was
\* discarded.
C7_Witness ==
  /\ pc["main"] = "returned"
  /\ ret["main"].op = "request_transaction"
  /\ call["main"].resp.status_code = 200
  /\ call["main"].resp.json = "ok"
  /\ calculate_tx_hash(call["main"].resp.value) # call["main"].resp.tx_hash
  /\ ret["main"].kind = "None"

\* The peer sets of two runs in a row: before the first, between, after.
Runs == Len(memo.sets) >= 3
Before == memo.sets[Len(memo.sets) - 2]
Between == memo.sets[Len(memo.sets) - 1]
After == memo.sets[Len(memo.sets)]

\* C8 as stated, where no request raises a transport error (no downtime is
\* recorded, so the registry evicts nothing): with every peer answering
\* list-peers, status and connect the same way in both runs, the second of
\* two runs of check_peers in a row leaves the peer set as the first left it.
C8_SecondRunChangesNothing ==
  (Runs /\ \A p \in Remote : ~memo.nodes[p].exc) => After = Between

\* C8, amended: the second run leaves the peer set as the first left it when
\* the first left at least MIN_PEERS peers, or when the first left the set as
\* it found it and no peer's list-peers request raises a transport error (no
\* downtime is recorded).
C8_SecondRunOfSettledSet ==
  Runs =>
    ((\/ Cardinality(Between) >= MIN_PEERS
      \/ /\ Between = Before
         /\ \A p \in Remote : ~memo.nodes[p].exc)
       => After = Between)
\* Two runs in a row below MIN_PEERS, the second probing a candidate again,
\* that left the peer set as it was.
C8_Witness ==
  /\ Runs
  /\ Between = Before
  /\ Cardinality(Between) < MIN_PEERS
  /\ \A p \in Remote : ~memo.nodes[p].exc
  /\ \E p \in Remote \ Between : memo.status[p] # NoResp
  /\ After = Between

\* C9: no operation ends by raising, and a retrieval operation whose peer
\* failed (transport error, a status code other than 200, a body that does
\* not parse or lacks the key read) returns None.
Retrievals ==
  {"request_nodes", "ping_status", "request_block_header",
   "request_transaction", "request_transactions_inv", "request_blocks_inv"}
C9_NoOperationRaises ==
  \A t \in Tasks :
    /\ ret[t].kind # "raised"
    /\ (/\ pc[t] = "returned" /\ ret[t].op \in Retrievals
        /\ \/ call[t].resp.exc
           \/ call[t].resp.status_code # 200
           \/ call[t].resp.json # "ok") => ret[t].kind = "None"

\* C10: a call of a retrieval operation (but ping_status) or a push of a
\* broadcast calls record_downtime once, for the peer called, when the
\* request raised a transport error, and not at all otherwise.
C10_DowntimeOnTransportFailureOnly ==
  \A t \in Tasks :
    call[t].fn \in (Retrievals \ {"ping_status"}) \cup Broadcasts =>
      call[t].down = IF call[t].resp.exc THEN <<call[t].node>> ELSE <<>>
\* A push raised a transport error and the downtime of its peer was recorded.
C10_Witness ==
  \E t \in Tasks :
    /\ call[t].fn \in Broadcasts
    /\ call[t].resp.exc
    /\ call[t].down = <<call[t].node>>
\* Task t takes a step of the admission sequence of lines 133-149.
Probes(t) ==
  /\ pc[t] \in {"cp_loop", "cp_connect"}
  /\ pc'[t] # pc[t] \/ todo'[t] # todo[t] \/ cand'[t] # cand[t]

\* C11: a call of ping_status records no downtime and leaves the peer set as
\* it was, whatever the host answered; a step of the admission sequence of
\* check_peers (the status request, the connect request) records no downtime
\* and removes no peer, and a candidate whose status request or connect
\* request raised a transport error, whose status is not a 200 equal to the
\* local descriptor or whose connect is not acknowledged is not added.
C11_ProbesNeverPenalise ==
  [][\A t \in Tasks :
       /\ (pc[t] = "idle" /\ op'[t] = "ping_status") =>
            /\ call'[t].fn = "ping_status"
            /\ call'[t].down = <<>>
            /\ peers' = peers
       /\ Probes(t) =>
            /\ call'[t].down = <<>>
            /\ peers \subseteq peers'
            /\ (~StatusAgrees(cand'[t].status) \/ ~ConnectAcks(cand'[t].connect))
                 => peers' = peers]_vars
\* The admission loop goes on after a candidate's request raised a transport
\* error and another candidate refused the connect: neither is a peer, and
\* the peers it started with are all there.
C11_Witness ==
  /\ pc["main"] = "cp_loop"
  /\ failed["main"] # {}
  /\ failed["main"] \cap peers = {}
  /\ cand["main"].connect = Body(202, "ok")
  /\ cand["main"].peer \notin peers \cup failed["main"]
  /\ Cardinality(peers) = cand["main"].count
  /\ peers # {}
\* The peers whose list-peers request raises a transport error in a pinned
\* run.
Unreachable == {p \in Remote : memo.nodes[p].exc}

\* C12 as stated: the peer set a run of check_peers leaves holds every peer
\* of the set the run started with.
C12_OnlyGrows ==
  \A i \in 1..(Len(memo.sets) - 1) : memo.sets[i] \subseteq memo.sets[i + 1]

\* C12, amended: the peer set a run of check_peers leaves holds every peer of
\* the set the run started with, except peers whose list-peers request raised
\* a transport error in the run (their downtime is recorded, and the registry
\* may evict them).
C12_GrowsButForDowntime ==
  \A i \in 1..(Len(memo.sets) - 1) :
    memo.sets[i] \ Unreachable \subseteq memo.sets[i + 1]
\* A run in which the list-peers request to a peer raised a transport error
\* kept that peer and admitted another.
C12_Witness ==
  /\ Len(memo.sets) >= 2
  /\ \E p \in memo.sets[1] \cap Unreachable : p \in memo.sets[2]
  /\ memo.sets[1] \subseteq memo.sets[2]
  /\ memo.sets[2] # memo.sets[1]
\* The positions of the mining thread in lines 282-287, after the check of
\* line 281, and the positions each is left for; the broadcast of line 287
\* starts with check_peers and returns to the check.
Follows ==
  [m_mine |-> {"m_add", "m_top"}, m_add |-> {"m_prune", "m_top"},
   m_prune |-> {"m_bcast"}, m_bcast |-> {"cp_count"}, returned |-> {"m_top"}]

\* C13: the mining thread leaves its loop only on the check at the top of an
\* iteration, with the flag set; a check that finds the flag set ends the
\* loop and changes nothing of the chain, the pool, the attempts made or the
\* pushes sent, and nothing of them changes afterwards; a check that finds
\* it clear starts the attempt; and with the flag set after the check, each
\* step of the iteration is followed by the step that follows it with the
\* flag clear, up to the next check.
C13_StopsAtIterationTop ==
  [][LET m == "miner" IN
     /\ (pc[m] # "exited" /\ pc'[m] = "exited") =>
          pc[m] = "m_top" /\ exit_flag
     /\ (pc[m] = "m_top" /\ pc'[m] # "m_top") =>
          IF exit_flag
          THEN /\ pc'[m] = "exited"
               /\ UNCHANGED <<chain, mempool, attempts, peers, sent, op>>
          ELSE pc'[m] = "m_mine"
     /\ pc[m] = "exited" =>
          /\ pc'[m] = "exited"
          /\ UNCHANGED <<chain, mempool, attempts, mine_log, block>>
          /\ sent'[m] = sent[m] /\ op'[m] = op[m]
     /\ (exit_flag /\ pc[m] \in DOMAIN Follows /\ pc'[m] # pc[m]) =>
          pc'[m] \in Follows[pc[m]]]_vars
\* The flag is set while the iteration that committed a block is pushing its
\* hash, with a peer still to come.
C13_Witness ==
  /\ exit_flag
  /\ pc["miner"] = "bc_loop"
  /\ sent["miner"] # {}
  /\ todo["miner"] # {}
  /\ Len(mine_log) = 3
\* The descriptors of the node and of the peer that answered r, field by
\* field.
SameFields(a, b) ==
  DOMAIN a = DOMAIN b /\ \A k \in DOMAIN a : a[k] = b[k]

\* C14: when ping_status returns a verdict on a peer's 200 answer, and when
\* the admission loop decides on a candidate's 200 answer, the verdict is the
\* one the peer's check of this node's descriptor gives (the same comparison
\* with the two descriptors in each other's place): compatible when the two
\* descriptors have the same keys with equal values, incompatible when they
\* differ in a key or a value.
C14_StatusCheckSymmetric ==
  \A t \in Tasks :
    /\ (pc[t] = "returned" /\ ret[t].op = "ping_status"
          /\ ret[t].kind = "value") =>
         LET theirs == status_dict(call[t].resp) IN
         /\ ret[t].value.success = status_equal(config_network, theirs)
         /\ ret[t].value.success = SameFields(config_network, theirs)
    /\ (cand[t].peer # None /\ cand[t].status.json = "ok") =>
         LET theirs == status_dict(cand[t].status) IN
         /\ (pc[t] = "cp_connect" \/ cand[t].connect # NoResp)
              = status_equal(config_network, theirs)
         /\ status_equal(theirs, config_network)
              = SameFields(config_network, theirs)
\* ping_status returned incompatible for a peer whose descriptor has every
\* key of the local one, with the same value, and one key more.
C14_Witness ==
  /\ pc["main"] = "returned"
  /\ ret["main"].op = "ping_status"
  /\ ret["main"].kind = "value"
  /\ ~ret["main"].value.success
  /\ call["main"].resp.value = "more"
\* C15: a step of the mining thread from the check, the attempt or add_block
\* leaves the pool, the peer set and the pushes as they were, and calls
\* neither remove_unconfirmed_transactions nor broadcast_block_inv; an attempt
\* that yields no block, and an add_block that does not put the block on the
\* chain, are followed by the check of the stop flag; so the thread is at
\* the removal or in the broadcast only with its block on the chain.
C15_EffectsOnlyOnAcceptance ==
  [][LET m == "miner" IN
     /\ (pc[m] \in {"m_top", "m_mine", "m_add"} /\ pc'[m] # pc[m]) =>
          /\ UNCHANGED <<mempool, peers, sent, enum, op>>
          /\ \A i \in 1..Len(mine_log') : mine_log'[i].fn = "add_block"
     /\ (pc[m] = "m_mine" /\ pc'[m] # pc[m] /\ block' = NoBlock) =>
          pc'[m] = "m_top"
     /\ (pc[m] = "m_add" /\ pc'[m] # pc[m] /\ chain' = chain) =>
          pc'[m] = "m_top" /\ mine_log' = <<>>
     /\ (pc'[m] \in {"m_prune", "m_bcast"} \/ op'[m] # None) =>
          /\ chain' # <<>>
          /\ chain'[Len(chain')] = block'.hash]_vars
\* add_block has rejected a block that carries transactions of the pool: the
\* thread is back at the check, the pool holds them and nothing is on the
\* chain.
C15_Witness ==
  /\ pc["miner"] = "m_top"
  /\ block # NoBlock
  /\ Len(block.transactions) > 1
  /\ Range(Tail(block.transactions)) \subseteq mempool
  /\ mine_log = <<>>
  /\ chain = <<>>
\* The positions of check_peers.
InCheckPeers(t) ==
  pc[t] \in {"cp_count", "fkp_all", "fkp_loop", "cp_loop", "cp_connect"}

\* C16: a broadcast starts with check_peers and sends nothing while
\* check_peers runs; it comes to its enumeration only by the return of
\* check_peers; the enumeration is the peer set at that moment and holds
\* every host that check_peers admitted, and it is the set of peers the loop
\* sets out to push to.
C16_RefreshBeforeEnumeration ==
  [][\A t \in Tasks :
       /\ (op[t] \notin Broadcasts /\ op'[t] \in Broadcasts) =>
            pc'[t] = "cp_count" /\ sent'[t] = {} /\ enum'[t] = {}
       /\ (InCheckPeers(t) /\ op[t] \in Broadcasts) =>
            sent'[t] = {} /\ enum'[t] = {}
       /\ (pc[t] # "bc_all" /\ pc'[t] = "bc_all") =>
            /\ pc[t] \in {"cp_count", "cp_loop"}
            /\ pc[t] = "cp_count" => ~below_min(peers)
            /\ pc[t] = "cp_loop" => todo[t] = {} \/ at_max(peers)
            /\ admitted'[t] \subseteq peers'
       /\ (pc[t] = "bc_all" /\ pc'[t] # "bc_all") =>
            /\ pc'[t] = "bc_loop"
            /\ enum'[t] = peers /\ todo'[t] = peers
            /\ admitted[t] \subseteq enum'[t]
       /\ (pc[t] = "bc_loop" /\ sent'[t] # sent[t]) =>
            sent'[t] \subseteq enum[t]]_vars
\* A broadcast has enumerated a peer set that holds a host its check_peers
\* admitted, and a host it started with.
C16_Witness ==
  /\ pc["main"] = "bc_loop"
  /\ op["main"] \in Broadcasts
  /\ admitted["main"] # {}
  /\ admitted["main"] \subseteq enum["main"]
  /\ enum["main"] \ admitted["main"] # {}
\* The record of the requests made and of the answers got.
Requested == <<call, cand, failed, memo.nodes, memo.status, memo.connect>>

\* C17: check_peers goes on to find_known_peers only from a peer count
\* below MIN_PEERS; called with MIN_PEERS peers or more it returns at once:
\* no request is made, no downtime is recorded, no host is admitted and the
\* peer set is left as it was.
C17_NoProbingAtMinPeers ==
  [][\A t \in Tasks :
       (pc[t] = "cp_count" /\ pc'[t] # pc[t]) =>
         IF Cardinality(peers) >= MIN_PEERS
         THEN /\ pc'[t] \in {"returned", "bc_all"}
              /\ pc'[t] = "returned" => ret'[t].kind = "None"
              /\ peers' = peers
              /\ admitted'[t] = {}
              /\ UNCHANGED Requested
         ELSE pc'[t] = "fkp_all"]_vars
\* check_peers, called with exactly MIN_PEERS peers and fewer than MAX_PEERS,
\* has returned.
C17_Witness ==
  /\ pc["main"] = "returned"
  /\ ret["main"].op = "check_peers"
  /\ nops > 0
  /\ call["main"] = NoCall
  /\ admitted["main"] = {}
  /\ Cardinality(peers) = MIN_PEERS
  /\ Cardinality(peers) < MAX_PEERS
\* The peer set the run of check_peers in progress started with, in a pinned
\* run, and what peer p's list-peers answer reports when it is a 200.
Started == memo.sets[Len(memo.sets)]
Reported(p) ==
  IF ~memo.nodes[p].exc /\ memo.nodes[p].status_code = 200
  THEN memo.nodes[p].full_nodes ELSE {}
\* The list-peers call last made by task t failed.
ListFailed(t) ==
  /\ call[t].fn = "request_nodes"
  /\ call[t].resp.exc \/ call[t].resp.status_code # 200

\* C18 as stated, its last part: a peer whose list-peers call fails, by a
\* transport error or by a response other than 200, has its downtime
\* recorded.
C18_EveryFailureIsPenalised ==
  \A t \in Tasks : ListFailed(t) => call[t].down = <<call[t].node>>

\* C18, amended: find_known_peers returns the union of the peers known when
\* it was called and the full_nodes lists of those of them that answered 200;
\* a peer whose call fails adds nothing, and its downtime is recorded when
\* the call raised a transport error, and not when it answered another code.
C18_UnionOfReportedLists ==
  [][\A t \in Tasks :
       /\ (pc[t] = "fkp_loop" /\ pc'[t] = "cp_loop") =>
            todo'[t] = Started \cup UNION {Reported(p) : p \in Started}
       /\ (pc[t] = "fkp_loop" /\ pc'[t] = "fkp_loop" /\ todo'[t] # todo[t]) =>
            LET c == call'[t] IN
            /\ c.fn = "request_nodes" /\ c.node \in Started
            /\ c.down = IF c.resp.exc THEN <<c.node>> ELSE <<>>
            /\ memo'.nodes[c.node] = c.resp
            /\ known_peers'[t] =
                 known_peers[t] \cup (IF ~c.resp.exc /\ c.resp.status_code = 200
                                      THEN c.resp.full_nodes ELSE {})]_vars
\* find_known_peers has returned the union for two peers, one that answered
\* 404 and is still a peer, one that reported hosts that were not known.
C18_Witness ==
  /\ pc["main"] = "cp_loop"
  /\ cand["main"].peer = None
  /\ todo["main"] = Started \cup UNION {Reported(p) : p \in Started}
  /\ todo["main"] # Started
  /\ \E p \in Started \cap peers :
       ~memo.nodes[p].exc /\ memo.nodes[p].status_code = 404
\* C19: while broadcast_transaction iterates, every peer it has sent to
\* raised a transport error, and the downtime of each was recorded; when it
\* returns a response, that is the response of the peer it sent to last, the
\* only one that did not raise, and no peer of the enumeration after it was
\* sent anything; when it returns None, every peer of the enumeration (there
\* may be none) was sent to and raised a transport error.
C19_FirstAnswerEndsBroadcast ==
  \A t \in Tasks :
    LET c == call[t] IN
    /\ c.fn = "broadcast_transaction" =>
         /\ c.node \in sent[t]
         /\ c.resp.exc = (c.node \in failed[t])
         /\ c.down = IF c.resp.exc THEN <<c.node>> ELSE <<>>
    /\ (pc[t] = "bc_loop" /\ op[t] = "broadcast_transaction") =>
         /\ sent[t] = failed[t]
         /\ todo[t] = enum[t] \ sent[t]
    /\ (pc[t] = "returned" /\ ret[t].op = "broadcast_transaction"
          /\ ret[t].kind = "value") =>
         /\ c.fn = "broadcast_transaction"
         /\ ret[t].value = c.resp /\ ~c.resp.exc
         /\ sent[t] = failed[t] \cup {c.node}
         /\ sent[t] \subseteq enum[t]
    /\ (pc[t] = "returned" /\ ret[t].op = "broadcast_transaction"
          /\ ret[t].kind = "None") =>
         sent[t] = enum[t] /\ failed[t] = enum[t]
\* broadcast_transaction returned the response of the second peer it sent
\* to, after the first raised a transport error, and sent nothing to a third.
C19_Witness ==
  /\ pc["main"] = "returned"
  /\ ret["main"].op = "broadcast_transaction"
  /\ ret["main"].kind = "value"
  /\ failed["main"] # {}
  /\ enum["main"] \ sent["main"] # {}
\* C20: the node's own address is no peer, no host add_peer was called with,
\* no candidate that was sent a status request and no candidate of a connect
\* request.
C20_NeverAdmitsItself ==
  /\ host \notin peers
  /\ \A t \in Tasks :
       /\ host \notin admitted[t]
       /\ cand[t].peer # host
       /\ peer[t] # host
\* A run of check_peers in which a peer reported the node's own address has
\* gone through all its candidates (it ended below MAX_PEERS) and admitted
\* another host.
C20_Witness ==
  /\ Len(memo.sets) >= 2
  /\ \E p \in memo.sets[1] : host \in Reported(p)
  /\ Cardinality(memo.sets[2]) < MAX_PEERS
  /\ memo.sets[1] \subseteq memo.sets[2]
  /\ memo.sets[2] # memo.sets[1]
\* ------------------------------------------------- shutdown of a mining node
\* A mining node whose calling task constructs the node and calls shutdown,
\* beside the mining thread.
InitStop ==
  \E P \in {{"a"}, {"a", "b"}} :
    Construct(P, PlainNet(<<"b", host, "a", "c">>, <<3, 3>>))

\* The steps of the calling task but the call of shutdown, and the steps of
\* the mining thread.
MainNext ==
  PeersStep("main") \/ InitMining(TRUE) \/ JoinMining \/ JoinBottle
MinerNext == Step("miner") \/ Mine

NextStop == MainNext \/ MinerNext \/ Shutdown \/ BottleExit

\* Both threads are scheduled fairly, and every mining attempt and every
\* request returns (each is a step).  shutdown is called or not; app.run,
\* the target of the bottle thread, returns or not: nothing in shutdown (lines
\* 113-117) tells it to.
SpecStop ==
  InitStop /\ [][NextStop]_vars /\ WF_vars(MainNext) /\ WF_vars(MinerNext)

\* shutdown has been called.
ShutdownCalled == op["main"] = "shutdown"

\* C21: once shutdown is called on a mining node, the mining thread ends and
\* shutdown returns.
C21_ShutdownReturns ==
  ShutdownCalled ~> (pc["miner"] = "exited" /\ pc["main"] = "down")
\* ------------------------------------------------------ a peer that is silent
\* The peer that accepts a request and never answers it.
Silent == "b"

\* requests.get(url) and requests.post(url, json=data) are called without a
\* timeout (lines 37, 142, 240, ...): the call to the silent peer waits for
\* the answer, and no statement of the task runs after it.
Hangs(t) ==
  /\ \/ pc[t] \in {"fkp_loop", "bc_loop"}
     \/ pc[t] = "cp_loop" /\ ~at_max(peers)
  /\ iterates(todo[t], Silent)
  /\ pc' = [pc EXCEPT ![t] = "waiting"]
  /\ call' = [call EXCEPT ![t] =
       [NoCall EXCEPT !.fn = op[t], !.node = Silent]]
  /\ sent' = [sent EXCEPT ![t] =
       IF pc[t] = "bc_loop" THEN sent[t] \cup {Silent} ELSE sent[t]]
  /\ UNCHANGED <<peers, node_vars, mine_vars, op, loop_vars, ret, enum,
                 failed, admitted, cand, nops>>

\* The steps of check_peers and of a broadcast with every peer but the silent
\* one answering.
StepBesideSilent(t) ==
  \/ CheckCount(t)
  \/ FindKnownPeers(t)
  \/ \E p \in Addr \ {Silent}, r \in net.nodes, evict \in BOOLEAN :
       FkpRequest(t, p, r, evict)
  \/ FkpReturn(t)
  \/ \E p \in Addr, r \in net.status \cup {NoResp} :
       (p # Silent \/ at_max(peers)) /\ CpCandidate(t, p, r)
  \/ CpReturn(t)
  \/ \E r \in net.connect : CpConnect(t, r)
  \/ Continue(t)
  \/ BcAll(t)
  \/ \E p \in Addr \ {Silent}, r \in net.push, evict \in BOOLEAN :
       BcPush(t, p, r, evict)
  \/ BcReturn(t)
  \/ Hangs(t)

InitSilent ==
  \E L \in Limits : \E P \in Stored(L) : Construct(P, PlainNet(<<>>, L))

\* The calls of the operations, made or not.
CallsSilent ==
  \/ \E o \in Broadcasts \cup {"check_peers"} : StartOp(o)
  \/ InitMining(FALSE)

NextSilent == StepBesideSilent("main") \/ CallsSilent

\* The calling task is scheduled fairly.
SpecSilent ==
  InitSilent /\ [][NextSilent]_vars /\ WF_vars(StepBesideSilent("main"))

\* Task t is in check_peers or in a broadcast.
Invoked(t) ==
  op[t] \in Broadcasts \cup {"check_peers", "__init__"} /\ pc[t] # "returned"

\* C22: with one peer that never answers and all others answering, every
\* call of check_peers and of a broadcast returns.
C22_SilentPeerStallsNothing ==
  Invoked("main") ~> pc["main"] = "returned"
\* ------------------------------------------- check_peers in two threads
\* A mining node with MAX_PEERS = 2 and three hosts to admit: check_peers
\* runs in the mining thread (in broadcast_block_inv) while the calling task
\* calls it; each step is one call of the registry or one request.
InitRace ==
  \E order \in {<<"b", host, "a", "c">>, <<"c", "a", host, "b">>} :
    Construct({"a"}, PlainNet(order, <<2, 2>>))

NextRace ==
  \/ \E t \in Tasks : Step(t)
  \/ StartOp("check_peers")
  \/ InitMining(TRUE)
  \/ Mine

SpecRace == InitRace /\ [][NextRace]_vars

\* Task t calls add_peer on this step.
CallsAddPeer(t) ==
  pc[t] = "cp_connect" /\ pc'[t] # pc[t] /\ cand'[t].added

\* C23 as stated: the guard of line 134 alone keeps the bound: whenever
\* check_peers calls add_peer, the peer set with the candidate in it has no
\* more than MAX_PEERS hosts.
C23_GuardAloneKeepsBound ==
  [][\A t \in Tasks :
       CallsAddPeer(t) => Cardinality(peers \cup {peer[t]}) <= MAX_PEERS]_vars

\* C23, amended: with check_peers in two threads, a thread sends a candidate
\* its status request only on a count below MAX_PEERS, but the count may
\* reach MAX_PEERS before its add_peer; the peer set never holds more than
\* MAX_PEERS hosts because add_peer inserts nothing at the maximum.
C23_RegistryKeepsBound ==
  [][\A t \in Tasks :
       /\ Cardinality(peers') <= MAX_PEERS
       /\ (pc[t] = "cp_loop" /\ cand'[t] # cand[t] /\ cand'[t].peer # None) =>
            Cardinality(peers) < MAX_PEERS
       /\ CallsAddPeer(t) =>
            peers' = IF Cardinality(peers) >= MAX_PEERS
                     THEN peers ELSE peers \cup {peer[t]}]_vars
\* A thread has called add_peer for a candidate when the other thread had
\* filled the peer set: the candidate is no peer.
C23_Witness ==
  \E t \in Tasks :
    /\ cand[t].added
    /\ cand[t].peer \notin peers
    /\ cand[t].count < MAX_PEERS
    /\ Cardinality(peers) = MAX_PEERS
\* C24: the hashes the mining loop called broadcast_block_inv with are the
\* hashes of the blocks add_block accepted, in that order, each once: all of
\* them when the thread is at the check, in the attempt, at add_block or out
\* of the loop, and all but the last while the thread is between the
\* acceptance of a block and its announcement; no hash is there twice, and
\* the hash of a block that was not accepted is not there.
C24_AnnouncedOncePerAccepted ==
  LET m == "miner" IN
  /\ Len(announced) <= Len(chain)
  /\ Len(chain) <= Len(announced) + 1
  /\ announced = SubSeq(chain, 1, Len(announced))
  /\ Len(chain) = Len(announced) + 1 =>
       /\ pc[m] \in {"m_prune", "m_bcast"}
       /\ chain[Len(chain)] = block.hash
  /\ \A i, j \in 1..Len(announced) : announced[i] = announced[j] => i = j
  /\ (block # NoBlock /\ block.hash \notin Range(chain)) =>
       block.hash \notin Range(announced)
\* The loop has announced the one block that was accepted and is back at the
\* check after add_block rejected another.
C24_Witness ==
  /\ pc["miner"] = "m_top"
  /\ Len(chain) = 1
  /\ announced = chain
  /\ block # NoBlock
  /\ block.hash \notin Range(chain)
====
